---- MODULE Spec2Model ----
(***************************************************************************)
(* The character-encoding analysis engine of the "デジ文字ラボ" application. *)
(*                                                                         *)
(* A JavaScript string is a sequence of UTF-16 code units (integers).      *)
(* A display string (hex, binary, codePoint) is a sequence of one-letter   *)
(* strings.  Two versions of the analysis engine live in the repository:   *)
(* the one of src/unnamed/part_000 (round-trip call, try/catch, isValid)   *)
(* and the one exported by src/utils/encoding.js (no try/catch).           *)
(*                                                                         *)
(* window.Encoding (the encoding-japanese library) is an external codec.   *)
(* It is modelled by a small conversion table and by the behaviours the    *)
(* comments of toSJISArray name for characters outside the Shift-JIS       *)
(* repertoire: the substitute byte 0x3F, an empty array, an invalid byte   *)
(* sequence; and by the calls in which it may throw.                       *)
(*                                                                         *)
(* Specifications:                                                         *)
(*   Spec        one call of each analyzeText on a string                  *)
(*   SpecFormat  toHexString and toBinaryString on a byte array            *)
(*   SpecRepeat  successive calls of each analyzeText on one string        *)
(*   SpecView    ConverterView: input changes, its effect, selection,      *)
(*               the library finishing to load                             *)
(*   SpecSim     MojibakeSimulator: its input, its effect, the library     *)
(*               finishing to load                                         *)
(***************************************************************************)
EXTENDS Integers, Sequences, FiniteSets, TLC

\* Longest input string, in UTF-16 code units.
MaxLen == 3

\* The code units input strings are drawn from:
\*   0x3F '?', 0x0301 combining acute accent, 0x3042 'あ',
\*   0xD83D and 0xDE80: the surrogate pair of U+1F680 (rocket emoji);
\*   either surrogate may also stand alone.
CodeUnits == {63, 769, 12354, 55357, 56960}

Strings == UNION {[1..n -> CodeUnits] : n \in 0..MaxLen}

\* The behaviours of the external codec.
\*   unmappable: what convert(to SJIS) emits for a code point outside the
\*               Shift-JIS repertoire
\*   throwIn:    the call of toSJISArray in which the codec throws:
\*               stringToCode on a lone surrogate, convert(to SJIS) on an
\*               unmappable code point, convert(from SJIS) on an unassigned
\*               double-byte code
\* Only the invalid byte sequence holds a code for the decoder to reject.
Codecs == {c \in [unmappable : {"subst", "empty", "garbage"},
                  throwIn : {"none", "stringToCode", "convert", "reverse"}] :
              c.throwIn = "reverse" => c.unmappable = "garbage"}

\* The value of codec while window.Encoding is not loaded.
NoCodec == [unmappable : {"subst"}, throwIn : {"none"}]

VARIABLES
    text,            \* the input string
    hasEncoding,     \* window.Encoding is loaded
    codec,           \* behaviour of window.Encoding
    outcome,         \* part_000 analyzeText: "none", "returned", "threw"
    analysis,        \* the records part_000 analyzeText returned
    calls,           \* calls of toUTF8Array and toSJISArray it made
    utilOutcome,     \* utils/encoding.js analyzeText: "none", "returned", "threw"
    utilAnalysis,    \* the records utils/encoding.js analyzeText returned
    utilCalls        \* calls of toUTF8Array and toSJISArray it made

\* toHexString and toBinaryString applied to a byte array
VARIABLES
    fmtBytes,        \* the byte array
    hexString,       \* what toHexString returned for it
    binaryString,    \* what toBinaryString returned for it
    formatted        \* the formatters that have returned: "hex", "binary"

\* Successive calls of analyzeText on one string
VARIABLES
    results,         \* what the calls of part_000 analyzeText returned, in order
    utilResults      \* what the calls of utils/encoding.js analyzeText returned

\* ConverterView of src/unnamed/part_000 and its child MojibakeSimulator
VARIABLES
    input,           \* ConverterView: the input state
    viewAnalysis,    \* ConverterView: the analysis state
    selectedIndex,   \* ConverterView: the selectedIndex state
    effectPending,   \* ConverterView: the [input] effect is scheduled
    utf8ToSjis,      \* MojibakeSimulator: the utf8ToSjis state
    sjisToUtf8,      \* MojibakeSimulator: the sjisToUtf8 state
    simPending       \* MojibakeSimulator: the [input] effect is scheduled

analyzerVars == <<text, outcome, analysis, calls, utilOutcome, utilAnalysis, utilCalls>>
formatVars == <<fmtBytes, hexString, binaryString, formatted>>
repeatVars == <<results, utilResults>>
viewVars == <<input, viewAnalysis, selectedIndex, effectPending>>
simVars == <<utf8ToSjis, sjisToUtf8, simPending>>

\* The text-generation service (getClient, askAITeacher, generateQuiz)
VARIABLES
    apiKey,          \* API_KEY
    aiClient,        \* the module variable aiClient: "null" or "client"
    constructions,   \* the number of times new GoogleGenAI(...) has run
    serviceCalls     \* the calls of askAITeacher and generateQuiz, in order

\* AITutorPanel
VARIABLES
    view,            \* the view state of App: "converter" or "about"
    panel,           \* the number of instances of the panel mounted so far
    question,        \* the question state
    answer,          \* the answer state
    tutorLoading,    \* the loading state
    clicks           \* the number of times handleAsk has run

\* QuizView
VARIABLES
    quiz,            \* the quiz state
    selectedOption,  \* the selectedOption state
    showResult,      \* the showResult state
    quizLoading,     \* the loading state
    mode,            \* the mode state: "static" or "ai"
    loadAICalls      \* the number of times loadAIQuiz has run

serviceVars == <<apiKey, aiClient, constructions, serviceCalls>>
tutorVars == <<view, panel, question, answer, tutorLoading, clicks>>
quizVars == <<quiz, selectedOption, showResult, quizLoading, mode, loadAICalls>>
appVars == <<serviceVars, tutorVars, quizVars>>

vars == <<hasEncoding, codec, analyzerVars, formatVars, repeatVars, viewVars, simVars,
          appVars>>

----------------------------------------------------------------------------
\* UTF-16

IsHighSurrogate(u) == u >= 55296 /\ u <= 56319    \* 0xD800..0xDBFF
IsLowSurrogate(u) == u >= 56320 /\ u <= 57343     \* 0xDC00..0xDFFF
IsSurrogate(u) == IsHighSurrogate(u) \/ IsLowSurrogate(u)

IsPair(str) == Len(str) >= 2 /\ IsHighSurrogate(str[1]) /\ IsLowSurrogate(str[2])

\* The code points of a string as TextEncoder and the codec read them: a
\* surrogate pair is one element, a lone surrogate is one element.
RECURSIVE CodePointsOf(_)
CodePointsOf(str) ==
    IF str = <<>> THEN <<>>
    ELSE IF IsPair(str)
         THEN <<SubSeq(str, 1, 2)>> \o CodePointsOf(SubSeq(str, 3, Len(str)))
         ELSE <<SubSeq(str, 1, 1)>> \o CodePointsOf(Tail(str))

\* str.split(''): one element per code unit.
ArrayFromByCodeUnit(str) == [i \in 1..Len(str) |-> <<str[i]>>]

\* A segmentation into grapheme clusters: a combining mark (U+0301) joins
\* the element before it.
RECURSIVE Clusters(_, _)
Clusters(done, cps) ==
    IF cps = <<>> THEN done
    ELSE IF done # <<>> /\ Head(cps) = <<769>>
         THEN Clusters(SubSeq(done, 1, Len(done) - 1) \o <<done[Len(done)] \o <<769>>>>,
                       Tail(cps))
         ELSE Clusters(Append(done, Head(cps)), Tail(cps))

ArrayFromGraphemes(str) == Clusters(<<>>, CodePointsOf(str))

\* Array.from(str), the string iterator: one element per code point.
RECURSIVE ArrayFrom(_)
ArrayFrom(str) ==
    IF str = <<>> THEN <<>>
    ELSE LET n == IF IsPair(str) THEN 2 ELSE 1 IN
         <<SubSeq(str, 1, n)>> \o ArrayFrom(SubSeq(str, n + 1, Len(str)))

\* String.prototype.codePointAt(0) of a non-empty string.
codePointAt0(str) ==
    IF IsPair(str)
    THEN (str[1] - 55296) * 1024 + (str[2] - 56320) + 65536
    ELSE str[1]

RECURSIVE Concat(_)
Concat(seqs) == IF seqs = <<>> THEN <<>> ELSE Head(seqs) \o Concat(Tail(seqs))

----------------------------------------------------------------------------
\* UTF-8 (TextEncoder)

\* The UTF-8 bytes of one code point; TextEncoder replaces a lone surrogate
\* by U+FFFD.
UTF8OfCodePoint(c) ==
    LET cp == IF IsSurrogate(c) THEN 65533 ELSE c IN
    IF cp < 128 THEN <<cp>>
    ELSE IF cp < 2048 THEN <<192 + (cp \div 64), 128 + (cp % 64)>>
    ELSE IF cp < 65536
         THEN <<224 + (cp \div 4096), 128 + ((cp \div 64) % 64), 128 + (cp % 64)>>
         ELSE <<240 + (cp \div 262144), 128 + ((cp \div 4096) % 64),
                128 + ((cp \div 64) % 64), 128 + (cp % 64)>>

toUTF8Array(str) ==
    LET chars == CodePointsOf(str) IN
    Concat([i \in 1..Len(chars) |-> UTF8OfCodePoint(codePointAt0(chars[i]))])

----------------------------------------------------------------------------
\* Number.prototype.toString(radix), toUpperCase, padStart, join

Digits == <<"0", "1", "2", "3", "4", "5", "6", "7", "8", "9",
            "a", "b", "c", "d", "e", "f">>

RECURSIVE toStringRadix(_, _)
toStringRadix(n, radix) ==
    IF n < radix THEN <<Digits[n + 1]>>
    ELSE toStringRadix(n \div radix, radix) \o <<Digits[(n % radix) + 1]>>

UpperOf(ch) ==
    CASE ch = "a" -> "A" [] ch = "b" -> "B" [] ch = "c" -> "C"
      [] ch = "d" -> "D" [] ch = "e" -> "E" [] ch = "f" -> "F"
      [] OTHER -> ch

toUpperCase(s) == [i \in 1..Len(s) |-> UpperOf(s[i])]

padStart(s, width, ch) ==
    IF Len(s) >= width THEN s
    ELSE [i \in 1..(width - Len(s)) |-> ch] \o s

RECURSIVE join(_, _)
join(parts, sep) ==
    IF parts = <<>> THEN <<>>
    ELSE IF Len(parts) = 1 THEN parts[1]
    ELSE parts[1] \o sep \o join(Tail(parts), sep)

\* Without padStart(2, '0').
toHexStringNoPad(byteArray) ==
    join([i \in 1..Len(byteArray) |->
            toUpperCase(toStringRadix(byteArray[i], 16))],
         <<" ">>)

\* join('') instead of join(' ').
toHexStringNoSeparator(byteArray) ==
    join([i \in 1..Len(byteArray) |->
            padStart(toUpperCase(toStringRadix(byteArray[i], 16)), 2, "0")],
         <<>>)

toHexString(byteArray) ==
    join([i \in 1..Len(byteArray) |->
            padStart(toUpperCase(toStringRadix(byteArray[i], 16)), 2, "0")],
         <<" ">>)

toBinaryString(byteArray) ==
    join([i \in 1..Len(byteArray) |->
            padStart(toStringRadix(byteArray[i], 2), 8, "0")],
         <<" ">>)

\* char.charCodeAt(0) instead of char.codePointAt(0).
codePointStringOfCodeUnit(char) ==
    <<"U", "+">> \o padStart(toUpperCase(toStringRadix(char[1], 16)), 4, "0")

codePointString(char) ==
    <<"U", "+">> \o padStart(toUpperCase(toStringRadix(codePointAt0(char), 16)), 4, "0")

----------------------------------------------------------------------------
\* window.Encoding: the external Shift-JIS codec

\* The byte a codec substitutes for what it cannot represent: '?'.
SUBSTITUTE == 63

\* The part of the Shift-JIS table in use: ASCII, and the hiragana
\* U+3041..U+3093 at 0x82 0x9F..0x82 0xF1 ('あ' U+3042 is 0x82 0xA0).
IsHiragana(cp) == cp >= 12353 /\ cp <= 12435

InRepertoire(cp) == cp < 128 \/ IsHiragana(cp)

\* The EUC-JP code of the character instead of its Shift-JIS code.
SJISOfCodePointAsEUC(cp) == IF cp < 128 THEN <<cp>> ELSE <<164, 161 + (cp - 12353)>>

SJISOfCodePoint(cp) == IF cp < 128 THEN <<cp>> ELSE <<130, 159 + (cp - 12353)>>

UnmappableBytes(lib) ==
    CASE lib.unmappable = "subst" -> <<SUBSTITUTE>>
      [] lib.unmappable = "empty" -> <<>>
      [] OTHER -> <<252, 252>>      \* 0xFC 0xFC: no character assigned

HasLoneSurrogate(str) ==
    \E i \in 1..Len(CodePointsOf(str)) :
        LET ch == CodePointsOf(str)[i] IN Len(ch) = 1 /\ IsSurrogate(ch[1])

HasUnmappable(str) ==
    \E i \in 1..Len(CodePointsOf(str)) : ~InRepertoire(codePointAt0(CodePointsOf(str)[i]))

\* Encoding.stringToCode(str): the array of the code units of str.
stringToCode(lib, str) ==
    IF lib.throwIn = "stringToCode" /\ HasLoneSurrogate(str)
    THEN [threw |-> TRUE, val |-> <<>>]
    ELSE [threw |-> FALSE, val |-> str]

\* Encoding.convert(unicodeArray, {to: 'SJIS', from: 'UNICODE'}).
convertToSJIS(lib, unicodeArray) ==
    LET cps == CodePointsOf(unicodeArray) IN
    IF lib.throwIn = "convert" /\ HasUnmappable(unicodeArray)
    THEN [threw |-> TRUE, val |-> <<>>]
    ELSE [threw |-> FALSE,
          val |-> Concat([i \in 1..Len(cps) |->
                    IF InRepertoire(codePointAt0(cps[i]))
                    THEN SJISOfCodePoint(codePointAt0(cps[i]))
                    ELSE UnmappableBytes(lib)])]

IsLeadByte(b) == (b >= 129 /\ b <= 159) \/ (b >= 224 /\ b <= 252)

\* The double-byte codes of the table in use: the hiragana row, and
\* 0xE3 0x81 (U+7E3A), which the UTF-8 bytes of hiragana start with.
IsTabulated(lead, trail) ==
    \/ lead = 130 /\ trail >= 159 /\ trail <= 241
    \/ lead = 227 /\ trail = 129

UnicodeOfSJIS(lead, trail) == IF lead = 130 THEN 12353 + (trail - 159) ELSE 32314

\* Encoding.convert(sjisArray, {to: 'UNICODE', from: 'SJIS', type: 'string'}).
RECURSIVE convertFromSJIS(_, _)
convertFromSJIS(lib, sjisArray) ==
    IF sjisArray = <<>> THEN [threw |-> FALSE, val |-> <<>>]
    ELSE IF sjisArray[1] < 128
    THEN LET rest == convertFromSJIS(lib, Tail(sjisArray)) IN
         [threw |-> rest.threw,
          val |-> IF rest.threw THEN <<>> ELSE <<sjisArray[1]>> \o rest.val]
    ELSE IF Len(sjisArray) >= 2 /\ IsTabulated(sjisArray[1], sjisArray[2])
    THEN LET rest == convertFromSJIS(lib, SubSeq(sjisArray, 3, Len(sjisArray))) IN
         [threw |-> rest.threw,
          val |-> IF rest.threw THEN <<>>
                  ELSE <<UnicodeOfSJIS(sjisArray[1], sjisArray[2])>> \o rest.val]
    ELSE IF lib.throwIn = "reverse"
    THEN [threw |-> TRUE, val |-> <<>>]
    ELSE LET used == IF IsLeadByte(sjisArray[1]) /\ Len(sjisArray) >= 2 THEN 2 ELSE 1
             rest == convertFromSJIS(lib, SubSeq(sjisArray, used + 1, Len(sjisArray)))
         IN [threw |-> rest.threw,
             val |-> IF rest.threw THEN <<>> ELSE <<SUBSTITUTE>> \o rest.val]

IsContinuation(b) == b >= 128 /\ b <= 191

\* The length of the UTF-8 sequence that starts bytes; 0 when bytes does not
\* start with a well-formed sequence.
UTF8SequenceLength(bytes) ==
    LET n == IF bytes[1] < 128 THEN 1
             ELSE IF bytes[1] >= 194 /\ bytes[1] <= 223 THEN 2
             ELSE IF bytes[1] >= 224 /\ bytes[1] <= 239 THEN 3
             ELSE IF bytes[1] >= 240 /\ bytes[1] <= 244 THEN 4
             ELSE 0
    IN IF n > 0 /\ Len(bytes) >= n /\ \A i \in 2..n : IsContinuation(bytes[i])
       THEN n ELSE 0

\* The code point a well-formed UTF-8 sequence denotes.
CodePointOfUTF8(sequence) ==
    CASE Len(sequence) = 1 -> sequence[1]
      [] Len(sequence) = 2 -> (sequence[1] - 192) * 64 + (sequence[2] - 128)
      [] Len(sequence) = 3 ->
            (sequence[1] - 224) * 4096 + (sequence[2] - 128) * 64 + (sequence[3] - 128)
      [] OTHER ->
            (sequence[1] - 240) * 262144 + (sequence[2] - 128) * 4096
                + (sequence[3] - 128) * 64 + (sequence[4] - 128)

\* The UTF-16 code units of a code point.
CodeUnitsOf(cp) ==
    IF cp < 65536 THEN <<cp>>
    ELSE <<55296 + ((cp - 65536) \div 1024), 56320 + ((cp - 65536) % 1024)>>

\* Encoding.convert(bytes, {to: 'UNICODE', from: 'UTF8', type: 'string'}).
\* On a byte that starts no well-formed sequence the library either throws
\* (throwIn = "fromUTF8") or emits U+FFFD and goes on with the next byte.
RECURSIVE convertFromUTF8(_, _)
convertFromUTF8(lib, bytes) ==
    IF bytes = <<>> THEN [threw |-> FALSE, val |-> <<>>]
    ELSE LET n == UTF8SequenceLength(bytes) IN
         IF n = 0 /\ lib.throwIn = "fromUTF8"
         THEN [threw |-> TRUE, val |-> <<>>]
         ELSE LET used == IF n = 0 THEN 1 ELSE n
                  units == IF n = 0 THEN <<65533>>
                           ELSE CodeUnitsOf(CodePointOfUTF8(SubSeq(bytes, 1, n)))
                  rest == convertFromUTF8(lib, SubSeq(bytes, used + 1, Len(bytes)))
              IN [threw |-> rest.threw,
                  val |-> IF rest.threw THEN <<>> ELSE units \o rest.val]

----------------------------------------------------------------------------
\* src/unnamed/part_000: toSJISArray and analyzeText

\* window: [Encoding |-> TRUE when the library is loaded, lib |-> its behaviour]
\* toSJISArray returns null or a byte array.
NullArray == [isNull |-> TRUE, bytes |-> <<>>]
ByteArray(b) == [isNull |-> FALSE, bytes |-> b]

\* The try block: stringToCode, convert to SJIS, convert back; both
\* branches of the comparison of reversed with str return sjisArray.
tryConvert(lib, str) ==
    LET unicodeArray == stringToCode(lib, str) IN
    IF unicodeArray.threw THEN [threw |-> TRUE, val |-> <<>>]
    ELSE LET sjisArray == convertToSJIS(lib, unicodeArray.val) IN
         IF sjisArray.threw THEN [threw |-> TRUE, val |-> <<>>]
         ELSE LET reversed == convertFromSJIS(lib, sjisArray.val) IN
              IF reversed.threw THEN [threw |-> TRUE, val |-> <<>>]
              ELSE IF reversed.val # str
                   THEN [threw |-> FALSE, val |-> sjisArray.val]
                   ELSE [threw |-> FALSE, val |-> sjisArray.val]

\* As toSJISArray of utils/encoding.js: [] when the library is absent.
toSJISArrayEmptyWhenAbsent(window, str) ==
    IF ~window.Encoding THEN ByteArray(<<>>)
    ELSE LET r == tryConvert(window.lib, str) IN
         IF r.threw THEN NullArray ELSE ByteArray(r.val)

\* catch (e) { return []; }
toSJISArrayCatchEmpty(window, str) ==
    IF ~window.Encoding THEN NullArray
    ELSE LET r == tryConvert(window.lib, str) IN
         IF r.threw THEN ByteArray(<<>>) ELSE ByteArray(r.val)

toSJISArray(window, str) ==
    IF ~window.Encoding THEN NullArray
    ELSE LET r == tryConvert(window.lib, str) IN
         IF r.threw THEN NullArray ELSE ByteArray(r.val)

\* Without the exception for the character '?'.
isSjisValidNoQuestionCase(sjis, char) ==
    IF sjis.isNull THEN "null"
    ELSE IF Len(sjis.bytes) = 1 /\ sjis.bytes[1] = 63 THEN "false" ELSE "true"

\* const isSjisValid = sjis && !(sjis.length === 1 && sjis[0] === 0x3F && char !== '?')
\* A JavaScript value: "null" when sjis is null, else "true" or "false".
isSjisValid(sjis, char) ==
    IF sjis.isNull THEN "null"
    ELSE IF Len(sjis.bytes) = 1 /\ sjis.bytes[1] = 63 /\ char # <<63>>
         THEN "false"
         ELSE "true"

\* length: sjis.length, whatever isSjisValid is.
charRecordRawLength(window, char, index) ==
    LET utf8 == toUTF8Array(char)
        sjis == toSJISArray(window, char)
        valid == isSjisValid(sjis, char)
        sjisOrEmpty == IF sjis.isNull THEN <<>> ELSE sjis.bytes
    IN [id |-> index,
        char |-> char,
        codePoint |-> codePointString(char),
        utf8 |-> [bytes |-> utf8,
                  length |-> Len(utf8),
                  hex |-> toHexString(utf8),
                  binary |-> toBinaryString(utf8)],
        sjis |-> [bytes |-> sjisOrEmpty,
                  length |-> Len(sjisOrEmpty),
                  hex |-> toHexString(sjisOrEmpty),
                  binary |-> toBinaryString(sjisOrEmpty),
                  isValid |-> valid]]

\* bytes: isSjisValid ? sjis : [], hex and binary still of sjis || [].
charRecordBytesWhenValid(window, char, index) ==
    LET utf8 == toUTF8Array(char)
        sjis == toSJISArray(window, char)
        valid == isSjisValid(sjis, char)
        sjisOrEmpty == IF sjis.isNull THEN <<>> ELSE sjis.bytes
    IN [id |-> index,
        char |-> char,
        codePoint |-> codePointString(char),
        utf8 |-> [bytes |-> utf8,
                  length |-> Len(utf8),
                  hex |-> toHexString(utf8),
                  binary |-> toBinaryString(utf8)],
        sjis |-> [bytes |-> IF valid = "true" THEN sjis.bytes ELSE <<>>,
                  length |-> IF valid = "true" THEN Len(sjis.bytes) ELSE 0,
                  hex |-> toHexString(sjisOrEmpty),
                  binary |-> toBinaryString(sjisOrEmpty),
                  isValid |-> valid]]

charRecord(window, char, index) ==
    LET utf8 == toUTF8Array(char)
        sjis == toSJISArray(window, char)
        valid == isSjisValid(sjis, char)
        sjisOrEmpty == IF sjis.isNull THEN <<>> ELSE sjis.bytes
    IN [id |-> index,
        char |-> char,
        codePoint |-> codePointString(char),
        utf8 |-> [bytes |-> utf8,
                  length |-> Len(utf8),
                  hex |-> toHexString(utf8),
                  binary |-> toBinaryString(utf8)],
        sjis |-> [bytes |-> sjisOrEmpty,
                  length |-> IF valid = "true" THEN Len(sjis.bytes) ELSE 0,
                  hex |-> toHexString(sjisOrEmpty),
                  binary |-> toBinaryString(sjisOrEmpty),
                  isValid |-> valid]]

\* Without the guard on the empty string, the whole input encoded first.
analyzeTextEager(window, str) ==
    LET chars == ArrayFrom(str) IN
    [records |-> [i \in 1..Len(chars) |-> charRecord(window, chars[i], i - 1)],
     utf8Calls |-> Len(chars) + 1,
     sjisCalls |-> Len(chars) + 1]

\* if (!text || !window.Encoding) return [];
analyzeTextNeedsEncoding(window, str) ==
    IF str = <<>> \/ ~window.Encoding
    THEN [records |-> <<>>, utf8Calls |-> 0, sjisCalls |-> 0]
    ELSE LET chars == ArrayFrom(str) IN
         [records |-> [i \in 1..Len(chars) |-> charRecord(window, chars[i], i - 1)],
          utf8Calls |-> Len(chars),
          sjisCalls |-> Len(chars)]

\* The records pushed onto an array that outlives the call: each call
\* returns the records of the calls before it followed by its own.
analyzeTextSharedArray(window, str) ==
    LET earlier == IF results = <<>> THEN <<>> ELSE results[Len(results)]
        chars == ArrayFrom(str)
    IN [records |-> earlier \o [i \in 1..Len(chars) |-> charRecord(window, chars[i], i - 1)],
        utf8Calls |-> Len(chars),
        sjisCalls |-> Len(chars)]

\* The records, and the number of calls of each encoder.
analyzeText(window, str) ==
    IF str = <<>> THEN [records |-> <<>>, utf8Calls |-> 0, sjisCalls |-> 0]
    ELSE LET chars == ArrayFrom(str) IN
         [records |-> [i \in 1..Len(chars) |-> charRecord(window, chars[i], i - 1)],
          utf8Calls |-> Len(chars),
          sjisCalls |-> Len(chars)]

----------------------------------------------------------------------------
\* src/utils/encoding.js (and src/app.js): toSJISArray and analyzeText

utilToSJISArray(window, str) ==
    IF ~window.Encoding THEN [threw |-> FALSE, val |-> <<>>]
    ELSE LET unicodeArray == stringToCode(window.lib, str) IN
         IF unicodeArray.threw THEN [threw |-> TRUE, val |-> <<>>]
         ELSE convertToSJIS(window.lib, unicodeArray.val)

utilCharRecord(char, sjis) ==
    LET utf8 == toUTF8Array(char) IN
    [char |-> char,
     codePoint |-> codePointString(char),
     utf8 |-> [bytes |-> utf8,
               hex |-> toHexString(utf8),
               binary |-> toBinaryString(utf8)],
     sjis |-> [bytes |-> sjis,
               hex |-> toHexString(sjis),
               binary |-> toBinaryString(sjis)]]

\* chars.map(...) stops at the first character whose conversion throws.
utilAnalyzeText(window, str) ==
    IF str = <<>>
    THEN [threw |-> FALSE, records |-> <<>>, utf8Calls |-> 0, sjisCalls |-> 0]
    ELSE LET chars == ArrayFrom(str)
             sjis == [i \in 1..Len(chars) |-> utilToSJISArray(window, chars[i])]
             bad == {i \in 1..Len(chars) : sjis[i].threw}
             first == IF bad = {} THEN Len(chars) + 1
                      ELSE CHOOSE i \in bad : \A j \in bad : i <= j
         IN IF bad # {}
            THEN [threw |-> TRUE, records |-> <<>>,
                  utf8Calls |-> first, sjisCalls |-> first]
            ELSE [threw |-> FALSE,
                  records |-> [i \in 1..Len(chars) |-> utilCharRecord(chars[i], sjis[i].val)],
                  utf8Calls |-> Len(chars), sjisCalls |-> Len(chars)]

----------------------------------------------------------------------------
\* The state machine

Window == [Encoding |-> hasEncoding, lib |-> codec]

\* A display string of MojibakeSimulator: the decoded text, or one of the
\* two marker strings of the effect.
Display(str) == [marker |-> "none", str |-> str]

\* The parts of the state a specification does not exercise.
NoAnalyzer ==
    /\ text = <<>>
    /\ outcome = "none"
    /\ analysis = <<>>
    /\ calls = [utf8 |-> 0, sjis |-> 0]
    /\ utilOutcome = "none"
    /\ utilAnalysis = <<>>
    /\ utilCalls = [utf8 |-> 0, sjis |-> 0]

NoFormat ==
    /\ fmtBytes = <<>>
    /\ hexString = <<>>
    /\ binaryString = <<>>
    /\ formatted = {}

NoRepeat ==
    /\ results = <<>>
    /\ utilResults = <<>>

NoView ==
    /\ input = <<>>
    /\ viewAnalysis = <<>>
    /\ selectedIndex = 0
    /\ effectPending = FALSE

NoSimulator ==
    /\ utf8ToSjis = Display(<<>>)
    /\ sjisToUtf8 = Display(<<>>)
    /\ simPending = FALSE

NoService ==
    /\ apiKey = ""
    /\ aiClient = "null"
    /\ constructions = 0
    /\ serviceCalls = <<>>

NoTutor ==
    /\ view = "converter"
    /\ panel = 0
    /\ question = <<>>
    /\ answer = ""
    /\ tutorLoading = FALSE
    /\ clicks = 0

NoQuiz ==
    /\ quiz = [question |-> "null", options |-> <<>>, answer |-> "null"]
    /\ selectedOption = "null"
    /\ showResult = FALSE
    /\ quizLoading = FALSE
    /\ mode = "static"
    /\ loadAICalls = 0

NoApp == NoService /\ NoTutor /\ NoQuiz

Init ==
    /\ text \in Strings
    /\ hasEncoding \in BOOLEAN
    /\ codec \in (IF hasEncoding THEN Codecs ELSE NoCodec)
    /\ outcome = "none"
    /\ analysis = <<>>
    /\ calls = [utf8 |-> 0, sjis |-> 0]
    /\ utilOutcome = "none"
    /\ utilAnalysis = <<>>
    /\ utilCalls = [utf8 |-> 0, sjis |-> 0]
    /\ NoFormat /\ NoRepeat /\ NoView /\ NoSimulator /\ NoApp

\* A call of analyzeText(text) of src/unnamed/part_000.
AnalyzeText ==
    LET r == analyzeText(Window, text) IN
    /\ outcome' = "returned"
    /\ analysis' = r.records
    /\ calls' = [utf8 |-> r.utf8Calls, sjis |-> r.sjisCalls]
    /\ UNCHANGED <<text, hasEncoding, codec, utilOutcome, utilAnalysis, utilCalls>>
    /\ UNCHANGED <<formatVars, appVars, repeatVars, viewVars, simVars>>

\* A call of analyzeText(text) of src/utils/encoding.js.
UtilAnalyzeText ==
    LET r == utilAnalyzeText(Window, text) IN
    /\ utilOutcome' = IF r.threw THEN "threw" ELSE "returned"
    /\ utilAnalysis' = r.records
    /\ utilCalls' = [utf8 |-> r.utf8Calls, sjis |-> r.sjisCalls]
    /\ UNCHANGED <<text, hasEncoding, codec, outcome, analysis, calls>>
    /\ UNCHANGED <<formatVars, appVars, repeatVars, viewVars, simVars>>

Next == AnalyzeText \/ UtilAnalyzeText

Spec == Init /\ [][Next]_vars

----------------------------------------------------------------------------
\* toHexString and toBinaryString on byte arrays

\* Longest byte array of more than one byte.
MaxBytes == 3

\* Byte values for the longer arrays: 0x00, 0x0A, 0x0F, 0x20, 0xA0, 0xFF.
SampleBytes == {0, 10, 15, 32, 160, 255}

\* Every array of one byte, and the arrays of sample bytes up to MaxBytes.
ByteArrays ==
    {<<b>> : b \in 0..255} \cup UNION {[1..n -> SampleBytes] : n \in 0..MaxBytes}

FormatInit ==
    /\ fmtBytes \in ByteArrays
    /\ hexString = <<>>
    /\ binaryString = <<>>
    /\ formatted = {}
    /\ hasEncoding = FALSE
    /\ codec \in NoCodec
    /\ NoAnalyzer /\ NoRepeat /\ NoView /\ NoSimulator /\ NoApp

\* A call of toHexString(fmtBytes).
FormatHex ==
    /\ "hex" \notin formatted
    /\ hexString' = toHexString(fmtBytes)
    /\ formatted' = formatted \cup {"hex"}
    /\ UNCHANGED <<fmtBytes, binaryString, hasEncoding, codec>>
    /\ UNCHANGED <<analyzerVars, repeatVars, viewVars, simVars, appVars>>

\* A call of toBinaryString(fmtBytes).
FormatBinary ==
    /\ "binary" \notin formatted
    /\ binaryString' = toBinaryString(fmtBytes)
    /\ formatted' = formatted \cup {"binary"}
    /\ UNCHANGED <<fmtBytes, hexString, hasEncoding, codec>>
    /\ UNCHANGED <<analyzerVars, repeatVars, viewVars, simVars, appVars>>

FormatNext == FormatHex \/ FormatBinary

SpecFormat == FormatInit /\ [][FormatNext]_vars

----------------------------------------------------------------------------
\* ConverterView of src/unnamed/part_000

\* Longest string typed into the input field, in UTF-16 code units
\* (the field's maxLength is 10).
MaxInput == 2

\* The code units typed: 'あ' and the two halves of the rocket emoji.
ViewUnits == {12354, 55357, 56960}

ViewInputs == UNION {[1..n -> ViewUnits] : n \in 0..MaxInput}

\* useState('こんにちは')
InitialInput == <<12371, 12435, 12395, 12385, 12399>>

\* The behaviours of the library ConverterView is run with.
ViewCodecs == {c \in Codecs : c.unmappable = "subst" /\ c.throwIn \in {"none", "convert"}}

\* The script of the library finishes loading: window.Encoding is defined.
LoadEncoding(libs) ==
    /\ ~hasEncoding
    /\ hasEncoding' = TRUE
    /\ codec' \in libs
    /\ UNCHANGED <<analyzerVars, formatVars, appVars, repeatVars, viewVars, simVars>>

\* The component after its first render; the effect of the mount is scheduled.
ViewInit ==
    /\ input = InitialInput
    /\ viewAnalysis = <<>>
    /\ selectedIndex = 0
    /\ effectPending = TRUE
    /\ hasEncoding \in BOOLEAN
    /\ codec \in (IF hasEncoding THEN ViewCodecs ELSE NoCodec)
    /\ NoAnalyzer /\ NoFormat /\ NoRepeat /\ NoSimulator /\ NoApp

\* onChange={(e) => setInput(e.target.value)}; a changed input schedules the
\* effect, which React runs before it handles the next event of the user.
ChangeInput(value) ==
    /\ ~effectPending
    /\ value # input
    /\ input' = value
    /\ effectPending' = TRUE
    /\ UNCHANGED <<viewAnalysis, selectedIndex, hasEncoding, codec>>
    /\ UNCHANGED <<analyzerVars, formatVars, appVars, repeatVars, simVars>>

\* if (!input) return; before setAnalysis.
RunEffectUnlessEmpty ==
    /\ effectPending
    /\ viewAnalysis' = IF input = <<>> THEN viewAnalysis
                       ELSE analyzeText(Window, input).records
    /\ selectedIndex' =
          IF Len(input) = 0 THEN -1
          ELSE IF selectedIndex >= Len(input) THEN 0
          ELSE IF selectedIndex = -1 /\ Len(input) > 0 THEN 0
          ELSE selectedIndex
    /\ effectPending' = FALSE
    /\ UNCHANGED <<input, hasEncoding, codec>>
    /\ UNCHANGED <<analyzerVars, formatVars, appVars, repeatVars, simVars>>

\* useEffect(() => { setAnalysis(analyzeText(input)); ... }, [input])
RunEffect ==
    /\ effectPending
    /\ viewAnalysis' = analyzeText(Window, input).records
    /\ selectedIndex' =
          IF Len(input) = 0 THEN -1
          ELSE IF selectedIndex >= Len(input) THEN 0
          ELSE IF selectedIndex = -1 /\ Len(input) > 0 THEN 0
          ELSE selectedIndex
    /\ effectPending' = FALSE
    /\ UNCHANGED <<input, hasEncoding, codec>>
    /\ UNCHANGED <<analyzerVars, formatVars, appVars, repeatVars, simVars>>

\* onClick={() => setSelectedIndex(idx)} of the button of record idx.
SelectChar(idx) ==
    /\ ~effectPending
    /\ Len(input) > 0
    /\ idx \in 0..(Len(viewAnalysis) - 1)
    /\ selectedIndex' = idx
    /\ UNCHANGED <<input, viewAnalysis, effectPending, hasEncoding, codec>>
    /\ UNCHANGED <<analyzerVars, formatVars, appVars, repeatVars, simVars>>

ViewNext ==
    \/ \E value \in ViewInputs : ChangeInput(value)
    \/ RunEffect
    \/ \E idx \in 0..(Len(viewAnalysis) - 1) : SelectChar(idx)
    \/ LoadEncoding(ViewCodecs)

SpecView == ViewInit /\ [][ViewNext]_vars

\* analysis.reduce((acc, item) => acc + item.utf8.length, 0)
RECURSIVE reduceUtf8Length(_)
reduceUtf8Length(items) ==
    IF items = <<>> THEN 0
    ELSE reduceUtf8Length(SubSeq(items, 1, Len(items) - 1)) + items[Len(items)].utf8.length

\* analysis.reduce((acc, item) => acc + item.sjis.length, 0)
RECURSIVE reduceSjisLength(_)
reduceSjisLength(items) ==
    IF items = <<>> THEN 0
    ELSE reduceSjisLength(SubSeq(items, 1, Len(items) - 1)) + items[Len(items)].sjis.length

totalUtf8 == reduceUtf8Length(viewAnalysis)

totalSjis == reduceSjisLength(viewAnalysis)

\* analysis.some(item => item.sjis.isValid)
canFullSjisSome == \E i \in 1..Len(viewAnalysis) : viewAnalysis[i].sjis.isValid = "true"

\* analysis.every(item => item.sjis.isValid): null counts as false.
canFullSjis == \A i \in 1..Len(viewAnalysis) : viewAnalysis[i].sjis.isValid = "true"

----------------------------------------------------------------------------
\* MojibakeSimulator of src/unnamed/part_000, the child ConverterView
\* renders with its input while the input is not empty

\* '（変換エラー）'
ConversionError == [marker |-> "conversion error", str |-> <<>>]

\* '（Shift-JIS非対応）'
NotSupported == [marker |-> "not supported", str |-> <<>>]

\* The behaviours of the library MojibakeSimulator is run with: none of its
\* calls throws (0x3F or no byte for a character outside the repertoire),
\* the decoder of Shift-JIS throws, the decoder of UTF-8 throws.
SimCodecs ==
    {[unmappable |-> "subst", throwIn |-> "none"],
     [unmappable |-> "empty", throwIn |-> "none"],
     [unmappable |-> "garbage", throwIn |-> "reverse"],
     [unmappable |-> "subst", throwIn |-> "fromUTF8"]}

\* 1. The UTF-8 bytes of the input read as Shift-JIS.
misreadAsSjis(lib, str) ==
    LET garbled == convertFromSJIS(lib, toUTF8Array(str)) IN
    IF garbled.threw THEN ConversionError ELSE Display(garbled.val)

\* Direction 2 only for inputs all of whose characters are valid.
misreadAsUtf8ValidOnly(window, str) ==
    LET sjisBytes == toSJISArray(window, str)
        chars == ArrayFrom(str)
    IN IF /\ ~sjisBytes.isNull /\ Len(sjisBytes.bytes) > 0
          /\ \A i \in 1..Len(chars) :
                isSjisValid(toSJISArray(window, chars[i]), chars[i]) = "true"
       THEN LET garbled == convertFromUTF8(window.lib, sjisBytes.bytes) IN
            IF garbled.threw THEN ConversionError ELSE Display(garbled.val)
       ELSE NotSupported

\* 2. The Shift-JIS bytes of the input read as UTF-8.
misreadAsUtf8(window, str) ==
    LET sjisBytes == toSJISArray(window, str) IN
    IF ~sjisBytes.isNull /\ Len(sjisBytes.bytes) > 0
    THEN LET garbled == convertFromUTF8(window.lib, sjisBytes.bytes) IN
         IF garbled.threw THEN ConversionError ELSE Display(garbled.val)
    ELSE NotSupported

\* The component mounted with the initial input of ConverterView; the effect
\* of the mount is scheduled.
SimInit ==
    /\ input = InitialInput
    /\ utf8ToSjis = Display(<<>>)
    /\ sjisToUtf8 = Display(<<>>)
    /\ simPending = TRUE
    /\ hasEncoding \in BOOLEAN
    /\ codec \in (IF hasEncoding THEN SimCodecs ELSE NoCodec)
    /\ viewAnalysis = <<>>
    /\ selectedIndex = 0
    /\ effectPending = FALSE
    /\ NoAnalyzer /\ NoFormat /\ NoRepeat /\ NoApp

\* ConverterView renders with a new input: with an empty one the component
\* is unmounted and its state is lost, after an empty one it is mounted with
\* the initial state, otherwise it keeps its state; a mounted component has
\* its effect scheduled.
SimChangeInput(value) ==
    /\ ~simPending
    /\ value # input
    /\ input' = value
    /\ simPending' = (value # <<>>)
    /\ IF value = <<>> \/ input = <<>>
       THEN utf8ToSjis' = Display(<<>>) /\ sjisToUtf8' = Display(<<>>)
       ELSE UNCHANGED <<utf8ToSjis, sjisToUtf8>>
    /\ UNCHANGED <<viewAnalysis, selectedIndex, effectPending, hasEncoding, codec>>
    /\ UNCHANGED <<analyzerVars, formatVars, appVars, repeatVars>>

\* One try block around both conversions.
SimRunEffectOneTry ==
    /\ simPending
    /\ simPending' = FALSE
    /\ IF input = <<>> \/ ~hasEncoding
       THEN UNCHANGED <<utf8ToSjis, sjisToUtf8>>
       ELSE IF misreadAsSjis(codec, input) = ConversionError
            THEN utf8ToSjis' = ConversionError /\ UNCHANGED sjisToUtf8
            ELSE /\ utf8ToSjis' = misreadAsSjis(codec, input)
                 /\ sjisToUtf8' = misreadAsUtf8(Window, input)
    /\ UNCHANGED <<input, viewAnalysis, selectedIndex, effectPending, hasEncoding, codec>>
    /\ UNCHANGED <<analyzerVars, formatVars, appVars, repeatVars>>

\* useEffect(() => { if (!input || !window.Encoding) return; ... }, [input])
SimRunEffect ==
    /\ simPending
    /\ simPending' = FALSE
    /\ IF input = <<>> \/ ~hasEncoding
       THEN UNCHANGED <<utf8ToSjis, sjisToUtf8>>
       ELSE /\ utf8ToSjis' = misreadAsSjis(codec, input)
            /\ sjisToUtf8' = misreadAsUtf8(Window, input)
    /\ UNCHANGED <<input, viewAnalysis, selectedIndex, effectPending, hasEncoding, codec>>
    /\ UNCHANGED <<analyzerVars, formatVars, appVars, repeatVars>>

SimNext ==
    \/ \E value \in ViewInputs : SimChangeInput(value)
    \/ SimRunEffect
    \/ LoadEncoding(SimCodecs)

SpecSim == SimInit /\ [][SimNext]_vars

----------------------------------------------------------------------------
\* analyzeText called again and again on one string, the strings being
\* those typed into ConverterView

\* The number of calls of each analyzeText.
MaxCalls == 2

RepeatInit ==
    /\ text \in ViewInputs
    /\ hasEncoding \in BOOLEAN
    /\ codec \in (IF hasEncoding THEN Codecs ELSE NoCodec)
    /\ outcome = "none"
    /\ analysis = <<>>
    /\ calls = [utf8 |-> 0, sjis |-> 0]
    /\ utilOutcome = "none"
    /\ utilAnalysis = <<>>
    /\ utilCalls = [utf8 |-> 0, sjis |-> 0]
    /\ results = <<>>
    /\ utilResults = <<>>
    /\ NoFormat /\ NoView /\ NoSimulator /\ NoApp

\* One more call of analyzeText(text) of src/unnamed/part_000.
CallAnalyzeText ==
    LET r == analyzeText(Window, text) IN
    /\ Len(results) < MaxCalls
    /\ results' = Append(results, r.records)
    /\ outcome' = "returned"
    /\ analysis' = r.records
    /\ calls' = [utf8 |-> r.utf8Calls, sjis |-> r.sjisCalls]
    /\ UNCHANGED <<text, hasEncoding, codec, utilOutcome, utilAnalysis, utilCalls>>
    /\ UNCHANGED <<utilResults, formatVars, appVars, viewVars, simVars>>

\* One more call of analyzeText(text) of src/utils/encoding.js.
CallUtilAnalyzeText ==
    LET r == utilAnalyzeText(Window, text) IN
    /\ Len(utilResults) < MaxCalls
    /\ utilResults' = Append(utilResults, [threw |-> r.threw, records |-> r.records])
    /\ utilOutcome' = IF r.threw THEN "threw" ELSE "returned"
    /\ utilAnalysis' = r.records
    /\ utilCalls' = [utf8 |-> r.utf8Calls, sjis |-> r.sjisCalls]
    /\ UNCHANGED <<text, hasEncoding, codec, outcome, analysis, calls>>
    /\ UNCHANGED <<results, formatVars, appVars, viewVars, simVars>>

RepeatNext == CallAnalyzeText \/ CallUtilAnalyzeText

SpecRepeat == RepeatInit /\ [][RepeatNext]_vars

----------------------------------------------------------------------------
\* The text-generation service: getClient, askAITeacher, generateQuiz
\* (src/services/gemini.js, and the same code in src/app.js and part_000)

\* The number of calls of askAITeacher and generateQuiz.
MaxRequests == 3

\* API_KEY: empty, or a key.
ApiKeys == {"", "key"}

\* The messages of the errors the two functions throw.
AskKeyMissing == "askAITeacher: no API key"
AskFailed == "askAITeacher: no response"
QuizKeyMissing == "API_KEY_MISSING"

\* What client.models.generateContent resolves with (response.text), or
\* that it rejects.
AskResponses == {[ok |-> TRUE, text |-> "text 1"], [ok |-> TRUE, text |-> "text 2"],
                 [ok |-> FALSE, text |-> ""]}

QuizResponses == {[ok |-> TRUE, text |-> "{quiz}"], [ok |-> TRUE, text |-> "null"],
                  [ok |-> TRUE, text |-> "not JSON"], [ok |-> FALSE, text |-> ""]}

\* JSON.parse(text): the quiz object, null, or a SyntaxError.
JSONparse(jsonText) ==
    CASE jsonText = "{quiz}" -> [threw |-> FALSE, val |-> "ai quiz"]
      [] jsonText = "null" -> [threw |-> FALSE, val |-> "null"]
      [] OTHER -> [threw |-> TRUE, val |-> "null"]

\* new GoogleGenAI(...) on every call.
getClientAlwaysNew(key, client) ==
    IF key = "" THEN [client |-> client, returned |-> "null", constructed |-> 0]
    ELSE [client |-> "client", returned |-> "client", constructed |-> 1]

\* getClient(): the value of aiClient afterwards, the value returned, and
\* the number of clients constructed.
getClient(key, client) ==
    IF key = "" THEN [client |-> client, returned |-> "null", constructed |-> 0]
    ELSE IF client = "null"
         THEN [client |-> "client", returned |-> "client", constructed |-> 1]
         ELSE [client |-> client, returned |-> client, constructed |-> 0]

\* askAITeacher or generateQuiz up to its await: without a client the call
\* rejects, with one the request is sent and the call is pending.
\* owner is the component instance that made the call (0: none).
StartCall(kind, owner) ==
    LET got == getClient(apiKey, aiClient) IN
    /\ Len(serviceCalls) < MaxRequests
    /\ aiClient' = got.client
    /\ constructions' = constructions + got.constructed
    /\ serviceCalls' = Append(serviceCalls,
          IF got.returned = "null"
          THEN [kind |-> kind, owner |-> owner, sent |-> FALSE, status |-> "rejected",
                value |-> IF kind = "ask" THEN AskKeyMissing ELSE QuizKeyMissing]
          ELSE [kind |-> kind, owner |-> owner, sent |-> TRUE, status |-> "pending",
                value |-> ""])
    /\ UNCHANGED apiKey

\* The call after its await, generateContent having settled with response.
Settled(call, response) ==
    IF call.kind = "ask"
    THEN IF response.ok
         THEN [call EXCEPT !.status = "fulfilled", !.value = response.text]
         ELSE [call EXCEPT !.status = "rejected", !.value = AskFailed]
    ELSE IF response.ok
         THEN [call EXCEPT !.status = "fulfilled", !.value = JSONparse(response.text).val]
         ELSE [call EXCEPT !.status = "fulfilled", !.value = "null"]

ResponsesOf(call) == IF call.kind = "ask" THEN AskResponses ELSE QuizResponses

ServiceInit ==
    /\ apiKey \in ApiKeys
    /\ aiClient = "null"
    /\ constructions = 0
    /\ serviceCalls = <<>>
    /\ hasEncoding = FALSE
    /\ codec \in NoCodec
    /\ NoAnalyzer /\ NoFormat /\ NoRepeat /\ NoView /\ NoSimulator
    /\ NoTutor /\ NoQuiz

\* A call of askAITeacher(question, context).
AskAITeacher ==
    /\ StartCall("ask", 0)
    /\ UNCHANGED <<hasEncoding, codec, tutorVars, quizVars>>
    /\ UNCHANGED <<analyzerVars, formatVars, repeatVars, viewVars, simVars>>

\* A call of generateQuiz().
GenerateQuiz ==
    /\ StartCall("quiz", 0)
    /\ UNCHANGED <<hasEncoding, codec, tutorVars, quizVars>>
    /\ UNCHANGED <<analyzerVars, formatVars, repeatVars, viewVars, simVars>>

\* generateContent settles for pending call i and the call completes.
ServiceSettles(i, response) ==
    /\ serviceCalls[i].status = "pending"
    /\ serviceCalls' = [serviceCalls EXCEPT ![i] = Settled(serviceCalls[i], response)]
    /\ UNCHANGED <<apiKey, aiClient, constructions>>
    /\ UNCHANGED <<hasEncoding, codec, tutorVars, quizVars>>
    /\ UNCHANGED <<analyzerVars, formatVars, repeatVars, viewVars, simVars>>

ServiceNext ==
    \/ AskAITeacher
    \/ GenerateQuiz
    \/ \E i \in 1..Len(serviceCalls) :
          \E response \in ResponsesOf(serviceCalls[i]) : ServiceSettles(i, response)

SpecService == ServiceInit /\ [][ServiceNext]_vars

----------------------------------------------------------------------------
\* AITutorPanel under App and ConverterView (src/unnamed/part_000)

\* The number of times the panel is mounted.
MaxMounts == 2

\* The values of the textarea: empty, whitespace only, and with text.
Questions == {<<>>, <<" ">>, <<"q">>, <<" ", "q", " ">>}

\* The values of the input of ConverterView.
TutorInputs == {<<>>, <<12354>>, InitialInput}

\* The message handleAsk sets when askAITeacher rejects.
TutorError == "handleAsk: error message"

RECURSIVE trimStart(_)
trimStart(str) ==
    IF str # <<>> /\ Head(str) = " " THEN trimStart(Tail(str)) ELSE str

RECURSIVE trimEnd(_)
trimEnd(str) ==
    IF str # <<>> /\ str[Len(str)] = " "
    THEN trimEnd(SubSeq(str, 1, Len(str) - 1))
    ELSE str

\* A trim that removes nothing.
trimNothing(str) == str

\* String.prototype.trim
trim(str) == trimEnd(trimStart(str))

\* The panel is rendered: `view === 'converter'` in App and
\* `input.length > 0` in ConverterView.
Mounted == view = "converter" /\ Len(input) > 0

\* A call that has not settled: pending, or never completing.
Unresolved(call) == call.status \in {"pending", "hung"}

\* A fresh instance of the panel.
MountPanel ==
    /\ panel < MaxMounts
    /\ panel' = panel + 1
    /\ question' = <<>>
    /\ answer' = ""
    /\ tutorLoading' = FALSE

\* The state of the instance is discarded.
UnmountPanel ==
    /\ question' = <<>>
    /\ answer' = ""
    /\ tutorLoading' = FALSE
    /\ UNCHANGED panel

TutorInit ==
    /\ apiKey \in ApiKeys
    /\ aiClient = "null"
    /\ constructions = 0
    /\ serviceCalls = <<>>
    /\ view = "converter"
    /\ input = InitialInput
    /\ panel = 1
    /\ question = <<>>
    /\ answer = ""
    /\ tutorLoading = FALSE
    /\ clicks = 0
    /\ viewAnalysis = <<>>
    /\ selectedIndex = 0
    /\ effectPending = FALSE
    /\ hasEncoding = FALSE
    /\ codec \in NoCodec
    /\ NoAnalyzer /\ NoFormat /\ NoRepeat /\ NoSimulator /\ NoQuiz

\* A NavButton of App: setView(value). ConverterView and the panel are
\* unmounted on leaving the converter and mounted afresh on coming back.
SetView(value) ==
    /\ value # view
    /\ view' = value
    /\ IF value = "converter"
       THEN input' = InitialInput /\ MountPanel
       ELSE /\ input' = <<>>
            /\ IF Mounted THEN UnmountPanel
               ELSE UNCHANGED <<panel, question, answer, tutorLoading>>
    /\ UNCHANGED <<clicks, serviceVars, quizVars>>
    /\ UNCHANGED <<viewAnalysis, selectedIndex, effectPending>>
    /\ UNCHANGED <<hasEncoding, codec, analyzerVars, formatVars, repeatVars, simVars>>

\* onChange of the input of ConverterView: the panel is rendered only
\* while the input is not empty.
TutorChangeInput(value) ==
    /\ view = "converter"
    /\ value # input
    /\ input' = value
    /\ IF Len(input) > 0 /\ Len(value) = 0 THEN UnmountPanel
       ELSE IF Len(input) = 0 /\ Len(value) > 0 THEN MountPanel
       ELSE UNCHANGED <<panel, question, answer, tutorLoading>>
    /\ UNCHANGED <<view, clicks, serviceVars, quizVars>>
    /\ UNCHANGED <<viewAnalysis, selectedIndex, effectPending>>
    /\ UNCHANGED <<hasEncoding, codec, analyzerVars, formatVars, repeatVars, simVars>>

\* onChange of the textarea: setQuestion(e.target.value).
SetQuestion(value) ==
    /\ Mounted
    /\ apiKey # ""
    /\ value # question
    /\ question' = value
    /\ UNCHANGED <<view, panel, answer, tutorLoading, clicks, serviceVars, quizVars>>
    /\ UNCHANGED <<hasEncoding, codec, analyzerVars, formatVars, repeatVars, viewVars, simVars>>

\* A click on the button, enabled unless `loading || !question`:
\* handleAsk up to its await.
HandleAsk ==
    /\ Mounted
    /\ apiKey # ""
    /\ ~tutorLoading
    /\ question # <<>>
    /\ clicks < MaxRequests
    /\ clicks' = clicks + 1
    /\ IF trim(question) = <<>>
       THEN UNCHANGED <<tutorLoading, serviceVars>>
       ELSE tutorLoading' = TRUE /\ StartCall("ask", panel)
    /\ UNCHANGED <<view, panel, question, answer, quizVars>>
    /\ UNCHANGED <<hasEncoding, codec, analyzerVars, formatVars, repeatVars, viewVars, simVars>>

\* The continuation of handleAsk sets the state of whichever panel is
\* displayed.
TutorSettlesAnyPanel(i, response) ==
    LET settled == Settled(serviceCalls[i], response) IN
    /\ i \in 1..Len(serviceCalls)
    /\ serviceCalls[i].status = "pending"
    /\ serviceCalls' = [serviceCalls EXCEPT ![i] = settled]
    /\ IF Mounted
       THEN /\ answer' = IF settled.status = "fulfilled" THEN settled.value ELSE TutorError
            /\ tutorLoading' = FALSE
       ELSE UNCHANGED <<answer, tutorLoading>>
    /\ UNCHANGED <<apiKey, aiClient, constructions>>
    /\ UNCHANGED <<view, panel, question, clicks, quizVars>>
    /\ UNCHANGED <<hasEncoding, codec, analyzerVars, formatVars, repeatVars, viewVars, simVars>>

\* generateContent settles for call i and handleAsk continues after its
\* await: setAnswer and setLoading(false) act on the instance that made the
\* call, and do nothing once it is unmounted.
TutorSettles(i, response) ==
    LET settled == Settled(serviceCalls[i], response) IN
    /\ i \in 1..Len(serviceCalls)
    /\ serviceCalls[i].status = "pending"
    /\ serviceCalls' = [serviceCalls EXCEPT ![i] = settled]
    /\ IF Mounted /\ serviceCalls[i].owner = panel
       THEN /\ answer' = IF settled.status = "fulfilled" THEN settled.value ELSE TutorError
            /\ tutorLoading' = FALSE
       ELSE UNCHANGED <<answer, tutorLoading>>
    /\ UNCHANGED <<apiKey, aiClient, constructions>>
    /\ UNCHANGED <<view, panel, question, clicks, quizVars>>
    /\ UNCHANGED <<hasEncoding, codec, analyzerVars, formatVars, repeatVars, viewVars, simVars>>

\* The request of call i never completes: no timeout is set on it.
RequestLost(i) ==
    /\ i \in 1..Len(serviceCalls)
    /\ serviceCalls[i].status = "pending"
    /\ serviceCalls' = [serviceCalls EXCEPT ![i].status = "hung"]
    /\ UNCHANGED <<apiKey, aiClient, constructions>>
    /\ UNCHANGED <<tutorVars, quizVars>>
    /\ UNCHANGED <<hasEncoding, codec, analyzerVars, formatVars, repeatVars, viewVars, simVars>>

TutorNext ==
    \/ \E value \in {"converter", "about"} : SetView(value)
    \/ \E value \in TutorInputs : TutorChangeInput(value)
    \/ \E value \in Questions : SetQuestion(value)
    \/ HandleAsk
    \/ \E i \in 1..MaxRequests : \E response \in AskResponses : TutorSettles(i, response)
    \/ \E i \in 1..MaxRequests : RequestLost(i)

SpecTutor == TutorInit /\ [][TutorNext]_vars

\* Every request that can complete does: a response or a failure arrives
\* for each pending request unless the request is lost.
SpecTutorLive ==
    /\ SpecTutor
    /\ \A i \in 1..MaxRequests :
          WF_vars(\E response \in AskResponses : TutorSettles(i, response))

----------------------------------------------------------------------------
\* QuizView (src/app.js, src/unnamed/part_001) and INITIAL_QUIZ_DATA
\* (src/constants.js)

INITIAL_QUIZ_DATA ==
    << [question |-> "quiz 1", options |-> <<"A", "a", "1", "B">>, answer |-> "A"],
       [question |-> "quiz 2", options |-> <<"E3 81 82", "82 A0", "30 42", "41">>,
        answer |-> "E3 81 82"] >>

\* The quiz state before a quiz is set.
NullQuiz == [question |-> "null", options |-> <<>>, answer |-> "null"]

\* The quiz generateQuiz returns when the service answers with the JSON
\* asked for.
AIQuiz ==
    [question |-> "ai quiz", options |-> <<"option 1", "option 2", "option 3", "option 4">>,
     answer |-> "option 2"]

\* The values Math.floor(Math.random() * INITIAL_QUIZ_DATA.length) takes,
\* as indices from 1.
RandomIndices == 1..Len(INITIAL_QUIZ_DATA)

\* loadStaticQuiz, Math.random having chosen quiz k: setQuiz and resetState.
loadStaticQuiz(k) ==
    /\ quiz' = INITIAL_QUIZ_DATA[k]
    /\ selectedOption' = "null"
    /\ showResult' = FALSE

\* loadAIQuiz up to its await.
loadAIQuiz(k) ==
    /\ loadAICalls < MaxRequests
    /\ loadAICalls' = loadAICalls + 1
    /\ IF apiKey = ""
       THEN /\ mode' = "static"
            /\ loadStaticQuiz(k)
            /\ UNCHANGED <<quizLoading, serviceVars>>
       ELSE /\ quizLoading' = TRUE
            /\ StartCall("quiz", 1)
            /\ UNCHANGED <<quiz, selectedOption, showResult, mode>>

QuizInit ==
    /\ apiKey \in ApiKeys
    /\ aiClient = "null"
    /\ constructions = 0
    /\ serviceCalls = <<>>
    /\ quiz = NullQuiz
    /\ selectedOption = "null"
    /\ showResult = FALSE
    /\ quizLoading = FALSE
    /\ mode = "static"
    /\ loadAICalls = 0
    /\ hasEncoding = FALSE
    /\ codec \in NoCodec
    /\ NoAnalyzer /\ NoFormat /\ NoRepeat /\ NoView /\ NoSimulator /\ NoTutor

\* The effect of the first render: loadStaticQuiz(). It runs before any
\* event, and the quiz is null only until it has run.
QuizMountEffect(k) ==
    /\ quiz = NullQuiz
    /\ loadStaticQuiz(k)
    /\ UNCHANGED <<quizLoading, mode, loadAICalls, serviceVars, tutorVars>>
    /\ UNCHANGED <<hasEncoding, codec, analyzerVars, formatVars, repeatVars, viewVars, simVars>>

\* The mode buttons, rendered under `API_KEY &&`: setMode(value).
SetMode(value) ==
    /\ quiz # NullQuiz
    /\ apiKey # ""
    /\ value # mode
    /\ mode' = value
    /\ UNCHANGED <<quiz, selectedOption, showResult, quizLoading, loadAICalls>>
    /\ UNCHANGED <<serviceVars, tutorVars>>
    /\ UNCHANGED <<hasEncoding, codec, analyzerVars, formatVars, repeatVars, viewVars, simVars>>

\* A click on an option that is taken whether or not the result is shown.
OptionClickAlways(option) ==
    /\ quiz # NullQuiz
    /\ ~quizLoading
    /\ \E n \in 1..Len(quiz.options) : quiz.options[n] = option
    /\ selectedOption' = option
    /\ showResult' = TRUE
    /\ UNCHANGED <<quiz, quizLoading, mode, loadAICalls, serviceVars, tutorVars>>
    /\ UNCHANGED <<hasEncoding, codec, analyzerVars, formatVars, repeatVars, viewVars, simVars>>

\* A click on an option button, rendered unless loading and disabled
\* while the result is shown: `!showResult && handleAnswer(option)`.
OptionClick(option) ==
    /\ quiz # NullQuiz
    /\ ~quizLoading
    /\ ~showResult
    /\ \E n \in 1..Len(quiz.options) : quiz.options[n] = option
    /\ selectedOption' = option
    /\ showResult' = TRUE
    /\ UNCHANGED <<quiz, quizLoading, mode, loadAICalls, serviceVars, tutorVars>>
    /\ UNCHANGED <<hasEncoding, codec, analyzerVars, formatVars, repeatVars, viewVars, simVars>>

\* The button to the next quiz, rendered with the result:
\* `mode === 'ai' ? loadAIQuiz : loadStaticQuiz`.
NextQuiz(k) ==
    /\ quiz # NullQuiz
    /\ ~quizLoading
    /\ showResult
    /\ IF mode = "ai"
       THEN loadAIQuiz(k)
       ELSE /\ loadStaticQuiz(k)
            /\ UNCHANGED <<quizLoading, mode, loadAICalls, serviceVars>>
    /\ UNCHANGED tutorVars
    /\ UNCHANGED <<hasEncoding, codec, analyzerVars, formatVars, repeatVars, viewVars, simVars>>

\* loadAIQuiz after its await that keeps the quiz it had when generateQuiz
\* gives none.
QuizSettlesNoFallback(i, response, k) ==
    LET settled == Settled(serviceCalls[i], response) IN
    /\ i \in 1..Len(serviceCalls)
    /\ serviceCalls[i].status = "pending"
    /\ serviceCalls' = [serviceCalls EXCEPT ![i] = settled]
    /\ IF settled.status = "fulfilled" /\ settled.value # "null"
       THEN quiz' = AIQuiz /\ selectedOption' = "null" /\ showResult' = FALSE
       ELSE UNCHANGED <<quiz, selectedOption, showResult>>
    /\ quizLoading' = FALSE
    /\ UNCHANGED <<apiKey, aiClient, constructions>>
    /\ UNCHANGED <<mode, loadAICalls, tutorVars>>
    /\ UNCHANGED <<hasEncoding, codec, analyzerVars, formatVars, repeatVars, viewVars, simVars>>

\* generateContent settles for call i and loadAIQuiz continues after its
\* await: the quiz generated, or, generateQuiz having returned null or
\* rejected, loadStaticQuiz(); then setLoading(false).
QuizSettles(i, response, k) ==
    LET settled == Settled(serviceCalls[i], response) IN
    /\ i \in 1..Len(serviceCalls)
    /\ serviceCalls[i].status = "pending"
    /\ serviceCalls' = [serviceCalls EXCEPT ![i] = settled]
    /\ IF settled.status = "fulfilled" /\ settled.value # "null"
       THEN quiz' = AIQuiz /\ selectedOption' = "null" /\ showResult' = FALSE
       ELSE loadStaticQuiz(k)
    /\ quizLoading' = FALSE
    /\ UNCHANGED <<apiKey, aiClient, constructions>>
    /\ UNCHANGED <<mode, loadAICalls, tutorVars>>
    /\ UNCHANGED <<hasEncoding, codec, analyzerVars, formatVars, repeatVars, viewVars, simVars>>

\* A call of loadAIQuiz whatever the mode is.
InvokeLoadAIQuiz(k) ==
    /\ quiz # NullQuiz
    /\ ~quizLoading
    /\ loadAIQuiz(k)
    /\ UNCHANGED tutorVars
    /\ UNCHANGED <<hasEncoding, codec, analyzerVars, formatVars, repeatVars, viewVars, simVars>>

QuizNext ==
    \/ \E k \in RandomIndices : QuizMountEffect(k)
    \/ \E value \in {"static", "ai"} : SetMode(value)
    \/ \E n \in 1..4 : \E q \in {INITIAL_QUIZ_DATA[1], INITIAL_QUIZ_DATA[2], AIQuiz} :
          OptionClick(q.options[n])
    \/ \E k \in RandomIndices : NextQuiz(k)
    \/ \E i \in 1..MaxRequests : \E response \in QuizResponses : \E k \in RandomIndices :
          QuizSettles(i, response, k)
    \/ \E i \in 1..MaxRequests : RequestLost(i)

\* QuizView as the user drives it.
SpecQuiz == QuizInit /\ [][QuizNext]_vars

LoadAIQuizNext ==
    \/ QuizNext
    \/ \E k \in RandomIndices : InvokeLoadAIQuiz(k)

\* QuizView with loadAIQuiz called in every state that shows a quiz.
SpecLoadAIQuiz == QuizInit /\ [][LoadAIQuizNext]_vars

----------------------------------------------------------------------------
\* Helpers of the properties

\* The codec throws in one of the three calls toSJISArray makes for char.
CodecThrows(lib, char) ==
    LET u == stringToCode(lib, char)
        e == convertToSJIS(lib, u.val)
    IN u.threw \/ e.threw \/ convertFromSJIS(lib, e.val).threw

\* Encoding char and decoding the bytes gives char back.
RoundTrips(lib, char) ==
    LET e == convertToSJIS(lib, stringToCode(lib, char).val)
        d == convertFromSJIS(lib, e.val)
    IN ~CodecThrows(lib, char) /\ d.val = char

CharsOf(records) == Concat([i \in 1..Len(records) |-> records[i].char])

\* The positions of text at which a surrogate pair starts.
PairStarts(str) ==
    {i \in 1..(Len(str) - 1) : IsHighSurrogate(str[i]) /\ IsLowSurrogate(str[i + 1])}

----------------------------------------------------------------------------
\* C1: while window.Encoding is loaded and does not throw for a character,
\* the record's sjis.isValid is true if and only if encoding the character
\* to Shift-JIS and decoding the bytes back yields the character.
C1_RoundTripDecidesValidity ==
    (outcome = "returned" /\ hasEncoding) =>
        \A i \in 1..Len(analysis) :
            ~CodecThrows(codec, analysis[i].char) =>
                ((analysis[i].sjis.isValid = "true") <=> RoundTrips(codec, analysis[i].char))

RECURSIVE NotFailing(_)
NotFailing(records) ==
    IF records = <<>> THEN <<>>
    ELSE IF CodecThrows(codec, Head(records).char)
         THEN NotFailing(Tail(records))
         ELSE <<Head(records)>> \o NotFailing(Tail(records))

WithoutId(r) == [char |-> r.char, codePoint |-> r.codePoint, utf8 |-> r.utf8, sjis |-> r.sjis]

\* The other characters have the records they have in the analysis of the
\* input without the failing characters, apart from the id.
OthersUnaffected ==
    LET kept == NotFailing(analysis)
        alone == analyzeText(Window, CharsOf(kept)).records
    IN /\ Len(alone) = Len(kept)
       /\ \A j \in 1..Len(kept) : WithoutId(alone[j]) = WithoutId(kept[j])

C4_UtilAnalyzeTextTotal == utilOutcome # "threw"

\* C5: the char fields of the records, concatenated in order, are the input,
\* and a surrogate pair has one record: there is one record for each code
\* unit that is not the second half of a pair.  Both versions of analyzeText.
C5_CharsReproduceInput ==
    /\ outcome = "returned" =>
          /\ CharsOf(analysis) = text
          /\ Len(analysis) = Len(text) - Cardinality(PairStarts(text))
    /\ utilOutcome = "returned" =>
          /\ CharsOf(utilAnalysis) = text
          /\ Len(utilAnalysis) = Len(text) - Cardinality(PairStarts(text))

C5_Witness ==
    /\ outcome = "returned" /\ utilOutcome = "returned"
    /\ Len(text) = 3 /\ PairStarts(text) = {2}
    /\ IsLowSurrogate(text[1])
    /\ Len(analysis) = 2 /\ Len(utilAnalysis) = 2

\* The user-perceived characters of a string: its code points, less the
\* combining marks (U+0301) that follow another code point.
GraphemeCount(str) ==
    LET cps == CodePointsOf(str) IN
    Cardinality({i \in 1..Len(cps) : i = 1 \/ cps[i] # <<769>>})

OneCodePoint(char) == Len(char) = 1 \/ (Len(char) = 2 /\ IsPair(char))

MarkRecords(records) == {i \in 1..Len(records) : records[i].char = <<769>>}

C7_EmptyInput ==
    text = <<>> =>
        /\ outcome = "returned" =>
              analysis = <<>> /\ calls.utf8 = 0 /\ calls.sjis = 0
        /\ utilOutcome # "none" =>
              /\ utilOutcome = "returned"
              /\ utilAnalysis = <<>> /\ utilCalls.utf8 = 0 /\ utilCalls.sjis = 0

C7_Witness ==
    /\ text = <<>> /\ hasEncoding /\ codec.throwIn = "stringToCode"
    /\ outcome = "returned" /\ utilOutcome = "returned"

\* C8: a character outside the Shift-JIS repertoire for which the codec
\* returns substitute bytes has a record with those bytes and
\* sjis.isValid = false.
C8_BytesDoNotImplyValid ==
    (outcome = "returned" /\ hasEncoding) =>
        \A i \in 1..Len(analysis) :
            LET char == analysis[i].char IN
            (/\ ~InRepertoire(codePointAt0(char))
             /\ ~CodecThrows(codec, char)
             /\ convertToSJIS(codec, char).val # <<>>) =>
                /\ analysis[i].sjis.bytes # <<>>
                /\ analysis[i].sjis.isValid = "false"

\* C9: with a codec that encodes '?' to the byte 0x3F, the record of a '?'
\* of the input has sjis.isValid = true and sjis.length = 1, wherever the
\* '?' stands.
C9_QuestionMarkValid ==
    (/\ outcome = "returned" /\ hasEncoding
     /\ ~CodecThrows(codec, <<63>>)
     /\ convertToSJIS(codec, <<63>>).val = <<63>>) =>
        /\ \A k \in 1..Len(text) :
              text[k] = 63 => \E i \in 1..Len(analysis) : analysis[i].char = <<63>>
        /\ \A i \in 1..Len(analysis) :
              analysis[i].char = <<63>> =>
                  analysis[i].sjis.isValid = "true" /\ analysis[i].sjis.length = 1

C9_Witness ==
    /\ outcome = "returned" /\ hasEncoding
    /\ Len(analysis) = 3
    /\ analysis[1].sjis.isValid = "false" /\ analysis[1].sjis.bytes = <<63>>
    /\ analysis[3].char = <<63>> /\ analysis[3].sjis.isValid = "true"

\* C10: in every record utf8.length is the number of utf8.bytes; sjis.length
\* is the number of sjis.bytes when sjis.isValid is true and 0 when it is not.
C10_LengthFields ==
    outcome = "returned" =>
        \A i \in 1..Len(analysis) :
            /\ analysis[i].utf8.length = Len(analysis[i].utf8.bytes)
            /\ analysis[i].sjis.isValid = "true" =>
                  analysis[i].sjis.length = Len(analysis[i].sjis.bytes)
            /\ analysis[i].sjis.isValid # "true" => analysis[i].sjis.length = 0

C10_Witness ==
    /\ outcome = "returned" /\ hasEncoding
    /\ Len(analysis) = 3
    /\ analysis[1].sjis.isValid = "true" /\ analysis[1].sjis.length = 2
    /\ analysis[2].sjis.isValid = "false" /\ analysis[2].sjis.bytes = <<63>>
    /\ analysis[3].sjis.isValid = "null"
    /\ analysis[3].utf8.length = 3

----------------------------------------------------------------------------
\* What convert(to SJIS) returns for char.
CodecBytes(lib, char) == convertToSJIS(lib, stringToCode(lib, char).val).val

\* hex and binary of a view are the renderings of the view's bytes.
Rendered(enc) ==
    /\ enc.hex = toHexString(enc.bytes)
    /\ enc.binary = toBinaryString(enc.bytes)

\* C11: while window.Encoding is loaded and does not throw for a character,
\* the record's sjis.bytes is the byte sequence convert(to SJIS) produced,
\* whatever isValid is; and in every record of either analyzeText, hex and
\* binary of the utf8 view and of the sjis view are toHexString and
\* toBinaryString of that view's bytes.
C11_BytesAndRenderings ==
    /\ \A i \in 1..Len(analysis) :
          /\ (hasEncoding /\ ~CodecThrows(codec, analysis[i].char))
                => analysis[i].sjis.bytes = CodecBytes(codec, analysis[i].char)
          /\ Rendered(analysis[i].utf8)
          /\ Rendered(analysis[i].sjis)
    /\ \A i \in 1..Len(utilAnalysis) :
          /\ Rendered(utilAnalysis[i].utf8)
          /\ Rendered(utilAnalysis[i].sjis)

\* A record that is not valid and holds the bytes the codec produced, next
\* to a record of the other analyzeText.
C11_Witness ==
    /\ hasEncoding
    /\ utilAnalysis # <<>>
    /\ \E i \in 1..Len(analysis) :
          /\ analysis[i].sjis.isValid = "false"
          /\ analysis[i].sjis.bytes = <<63>>
          /\ analysis[i].sjis.hex = <<"3", "F">>

----------------------------------------------------------------------------
UpperHexDigits == {UpperOf(Digits[v]) : v \in 1..16}

\* C12: for every non-empty array of n bytes, toHexString returns a string
\* of length 2n + (n - 1): n groups of two uppercase hexadecimal digits,
\* one space between consecutive groups, no space at either end.
C12_HexShape ==
    ("hex" \in formatted /\ fmtBytes # <<>>) =>
        LET n == Len(fmtBytes) IN
        /\ Len(hexString) = 2 * n + (n - 1)
        /\ \A i \in 1..n :
              /\ hexString[3 * i - 2] \in UpperHexDigits
              /\ hexString[3 * i - 1] \in UpperHexDigits
              /\ i < n => hexString[3 * i] = " "

\* Three bytes, two of them below 0x10, rendered.
C12_Witness ==
    /\ "hex" \in formatted
    /\ fmtBytes = <<0, 10, 255>>
    /\ hexString = <<"0", "0", " ", "0", "A", " ", "F", "F">>

\* The pieces of s between its spaces; the empty string has no piece.
RECURSIVE SplitOnSpaces(_)
SplitOnSpaces(s) ==
    IF \A i \in 1..Len(s) : s[i] # " " THEN <<s>>
    ELSE LET k == CHOOSE i \in 1..Len(s) :
                    s[i] = " " /\ \A j \in 1..(i - 1) : s[j] # " "
         IN <<SubSeq(s, 1, k - 1)>> \o SplitOnSpaces(SubSeq(s, k + 1, Len(s)))

Pieces(s) == IF s = <<>> THEN <<>> ELSE SplitOnSpaces(s)

DigitValue(ch) == (CHOOSE v \in 1..16 : UpperOf(Digits[v]) = UpperOf(ch)) - 1

\* The number piece denotes in the radix; -1 when it is not a numeral.
RECURSIVE ParseRadix(_, _)
ParseRadix(piece, radix) ==
    IF piece = <<>> THEN -1
    ELSE IF \E i \in 1..Len(piece) :
               \/ UpperOf(piece[i]) \notin UpperHexDigits
               \/ DigitValue(piece[i]) >= radix
    THEN -1
    ELSE IF Len(piece) = 1 THEN DigitValue(piece[1])
    ELSE ParseRadix(SubSeq(piece, 1, Len(piece) - 1), radix) * radix
            + DigitValue(piece[Len(piece)])

ParseBytes(s, radix) ==
    [i \in 1..Len(Pieces(s)) |-> ParseRadix(Pieces(s)[i], radix)]

----------------------------------------------------------------------------
\* The Unicode code point of one character (one code unit or a surrogate pair).
ScalarOf(char) ==
    IF Len(char) = 2
    THEN 65536 + (char[1] - 55296) * 1024 + (char[2] - 56320)
    ELSE char[1]

CodePointLabel(char, label) ==
    LET cp == ScalarOf(char)
        digits == SubSeq(label, 3, Len(label))
    IN /\ Len(label) > 2
       /\ label[1] = "U"
       /\ label[2] = "+"
       /\ \A i \in 1..Len(digits) : digits[i] \in UpperHexDigits
       /\ ParseRadix(digits, 16) = cp
       /\ cp <= 65535 => Len(digits) = 4
       /\ cp > 65535 => (Len(digits) \in {5, 6} /\ digits[1] # "0")

\* C14: in every record of either analyzeText, codePoint is "U+" followed
\* by the uppercase hexadecimal numeral of the character's code point, padded
\* with zeros to four digits (four digits up to U+FFFF, five or six without
\* padding above); for a surrogate pair it is the pair's code point, not the
\* first code unit.
C14_CodePointLabel ==
    /\ \A i \in 1..Len(analysis) :
          CodePointLabel(analysis[i].char, analysis[i].codePoint)
    /\ \A i \in 1..Len(utilAnalysis) :
          CodePointLabel(utilAnalysis[i].char, utilAnalysis[i].codePoint)

\* A padded label and the label of a surrogate pair in one analysis.
C14_Witness ==
    /\ \E i \in 1..Len(analysis) :
          /\ analysis[i].char = <<63>>
          /\ analysis[i].codePoint = <<"U", "+", "0", "0", "3", "F">>
    /\ \E i \in 1..Len(analysis) :
          /\ analysis[i].char = <<55357, 56960>>
          /\ analysis[i].codePoint = <<"U", "+", "1", "F", "6", "8", "0">>

----------------------------------------------------------------------------
RECURSIVE SumOfUtf8Bytes(_)
SumOfUtf8Bytes(records) ==
    IF records = <<>> THEN 0
    ELSE Len(Head(records).utf8.bytes) + SumOfUtf8Bytes(Tail(records))

IsValidValues(records) == {records[i].sjis.isValid : i \in 1..Len(records)}

----------------------------------------------------------------------------
----------------------------------------------------------------------------
\* window without the library.
WindowWithoutEncoding == [Encoding |-> FALSE, lib |-> CHOOSE c \in NoCodec : TRUE]

\* The part of the records that is about Unicode and UTF-8.
PrimaryOf(records) ==
    [i \in 1..Len(records) |->
        [char |-> records[i].char,
         codePoint |-> records[i].codePoint,
         utf8 |-> records[i].utf8]]

\* C17: the number of records analyzeText of part_000 returns, and the char,
\* codePoint and utf8 view (bytes, length, hex, binary) of each, are what
\* the call returns for the same string without the library, whether the
\* library is absent, loaded, or throws for characters of the string.
C17_PrimaryIgnoresCodec ==
    outcome = "returned" =>
        PrimaryOf(analysis) = PrimaryOf(analyzeText(WindowWithoutEncoding, text).records)

\* The library loaded and throwing for one character of two.
C17_Witness ==
    /\ outcome = "returned"
    /\ hasEncoding
    /\ Len(analysis) = 2
    /\ analysis[1].sjis.isValid = "true"
    /\ analysis[2].sjis.isValid = "null"

----------------------------------------------------------------------------
\* A display that shows nothing.
Blank(display) == display = Display(<<>>)

\* The marker of a simulation that could not be run for want of the library;
\* the effect of MojibakeSimulator holds no such string.
SimulationUnavailable == [marker |-> "simulation unavailable", str |-> <<>>]

\* C18: once the effect of MojibakeSimulator has run for a non-empty input
\* while window.Encoding is not loaded, each of the two directions shows the
\* "simulation unavailable" state and neither display is blank.
C18_UnavailableStateShown ==
    (~simPending /\ ~hasEncoding /\ input # <<>>) =>
        /\ utf8ToSjis = SimulationUnavailable
        /\ sjisToUtf8 = SimulationUnavailable
        /\ ~Blank(utf8ToSjis)
        /\ ~Blank(sjisToUtf8)

----------------------------------------------------------------------------
\* The decoder throws on the UTF-8 bytes of the input read as Shift-JIS.
SjisDecodeThrows == convertFromSJIS(codec, toUTF8Array(input)).threw

\* toSJISArray returned bytes for the input and the decoder throws on them
\* read as UTF-8.
Utf8DecodeThrows ==
    LET sjisBytes == toSJISArray(Window, input) IN
    /\ ~sjisBytes.isNull
    /\ convertFromUTF8(codec, sjisBytes.bytes).threw

\* What a direction of its own shows for the input.
SjisReadingAlone ==
    IF SjisDecodeThrows THEN ConversionError
    ELSE Display(convertFromSJIS(codec, toUTF8Array(input)).val)

Utf8ReadingAlone ==
    LET sjisBytes == toSJISArray(Window, input) IN
    IF sjisBytes.isNull \/ sjisBytes.bytes = <<>> THEN NotSupported
    ELSE IF Utf8DecodeThrows THEN ConversionError
    ELSE Display(convertFromUTF8(codec, sjisBytes.bytes).val)

\* C19: when the effect of MojibakeSimulator runs with the library loaded
\* and a non-empty input, a direction whose decoding throws shows the
\* conversion-error string, the effect completes, and the other direction
\* shows what it shows of its own for the same input.
C19_ThrowingDirectionIsolated ==
    [][(simPending /\ ~simPending' /\ hasEncoding /\ input # <<>>) =>
          /\ SjisDecodeThrows =>
                (utf8ToSjis' = ConversionError /\ sjisToUtf8' = Utf8ReadingAlone)
          /\ Utf8DecodeThrows =>
                (sjisToUtf8' = ConversionError /\ utf8ToSjis' = SjisReadingAlone)]_vars

\* The first direction threw and the second shows decoded text.
C19_Witness ==
    /\ ~simPending
    /\ hasEncoding
    /\ input # <<>>
    /\ SjisDecodeThrows
    /\ utf8ToSjis = ConversionError
    /\ sjisToUtf8.marker = "none"
    /\ sjisToUtf8.str # <<>>

----------------------------------------------------------------------------
\* C20 as stated: once the effect of ConverterView has run, the analysis
\* state is analyzeText(input) computed with window.Encoding as it is now.
C20_AnalysisOfInputAndCurrentCodec ==
    ~effectPending => viewAnalysis = analyzeText(Window, input).records

\* C20, amended: once the effect of ConverterView has run, the analysis
\* state is analyzeText(input) computed from scratch for the current input,
\* with window.Encoding as it was when the effect ran: as it is now, or not
\* yet loaded if the library has loaded since.  No record of an earlier
\* input remains.
C20_AnalysisOfInputAndCodecAtEffect ==
    ~effectPending =>
        \/ viewAnalysis = analyzeText(Window, input).records
        \/ /\ hasEncoding
           /\ viewAnalysis = analyzeText(WindowWithoutEncoding, input).records

\* The input was changed, the effect ran, and the library loaded afterwards:
\* the records computed without it are still the analysis state.
C20_Witness ==
    /\ ~effectPending
    /\ input \in ViewInputs
    /\ input # <<>>
    /\ hasEncoding
    /\ viewAnalysis = analyzeText(WindowWithoutEncoding, input).records
    /\ viewAnalysis # analyzeText(Window, input).records

----------------------------------------------------------------------------
\* The one record analyzeText("あ") returns, as far as the library does not
\* matter.
RecordOfA ==
    /\ Len(analysis) = 1
    /\ analysis[1].codePoint = <<"U", "+", "3", "0", "4", "2">>
    /\ analysis[1].utf8.hex = <<"E", "3", " ", "8", "1", " ", "8", "2">>
    /\ Len(analysis[1].utf8.bytes) = 3

RecordOfAWithEncoding ==
    /\ analysis[1].sjis.hex = <<"8", "2", " ", "A", "0">>
    /\ analysis[1].sjis.isValid = "true"

----------------------------------------------------------------------------
\* C27: in every record analyzeText of part_000 returns, isValid true
\* implies that sjis.bytes is not empty and sjis.length is at least 1.
C27_ValidHasBytes ==
    \A i \in 1..Len(analysis) :
        analysis[i].sjis.isValid = "true" =>
            (analysis[i].sjis.bytes # <<>> /\ analysis[i].sjis.length >= 1)

----------------------------------------------------------------------------
\* toSJISArray returns a non-null, non-empty array for the input.
SjisProducible ==
    LET sjisBytes == toSJISArray(Window, input) IN
    ~sjisBytes.isNull /\ sjisBytes.bytes # <<>>

\* C25: when the effect of MojibakeSimulator runs with the library loaded
\* and a non-empty input, the second direction shows the not-supported
\* marker if and only if toSJISArray returns null or no bytes for the whole
\* input; otherwise it shows what the decoder made of the bytes, unfiltered
\* (or the conversion-error string when the decoder threw).
C25_SecondDirection ==
    [][(simPending /\ ~simPending' /\ hasEncoding /\ input # <<>>) =>
          LET decoded == convertFromUTF8(codec, toSJISArray(Window, input).bytes) IN
          /\ sjisToUtf8' = NotSupported <=> ~SjisProducible
          /\ (SjisProducible /\ ~decoded.threw) => sjisToUtf8' = Display(decoded.val)
          /\ (SjisProducible /\ decoded.threw) => sjisToUtf8' = ConversionError]_vars

\* The rocket emoji alone, its isValid false: the substitute byte 0x3F was
\* decoded and '?' is shown.
C25_Witness ==
    /\ ~simPending
    /\ hasEncoding
    /\ input = <<55357, 56960>>
    /\ isSjisValid(toSJISArray(Window, input), input) = "false"
    /\ sjisToUtf8 = Display(<<63>>)

----------------------------------------------------------------------------
\* C26: once the effect of ConverterView has run, selectedIndex is -1 when
\* the input is empty, and otherwise 0 <= selectedIndex < number of records
\* of the analysis, so that analysis[selectedIndex] is a record.
C26_SelectedIndexInRange ==
    ~effectPending =>
        IF input = <<>> THEN selectedIndex = -1
        ELSE 0 <= selectedIndex /\ selectedIndex < Len(viewAnalysis)

----------------------------------------------------------------------------
\* C30: over any sequence of calls of askAITeacher and generateQuiz the
\* client is constructed at most once and then reused; with an empty API
\* key no client is constructed, no request is sent, and every call rejects,
\* generateQuiz with API_KEY_MISSING.
C30_OneClient ==
    /\ constructions <= 1
    /\ aiClient = "client" <=> constructions = 1
    /\ \A i \in 1..Len(serviceCalls) :
          serviceCalls[i].sent => (apiKey # "" /\ aiClient = "client")
    /\ apiKey = "" =>
          /\ constructions = 0
          /\ \A i \in 1..Len(serviceCalls) :
                /\ ~serviceCalls[i].sent
                /\ serviceCalls[i].status = "rejected"
                /\ serviceCalls[i].kind = "quiz" => serviceCalls[i].value = QuizKeyMissing

\* Three requests of both kinds sent through one client.
C30_Witness ==
    /\ apiKey = "key"
    /\ Len(serviceCalls) = 3
    /\ \A i \in 1..3 : serviceCalls[i].sent
    /\ {serviceCalls[i].kind : i \in 1..3} = {"ask", "quiz"}
    /\ constructions = 1

----------------------------------------------------------------------------
\* The calls made by instance p of the panel that have not settled.
UnresolvedOf(p) ==
    {i \in 1..Len(serviceCalls) : serviceCalls[i].owner = p /\ Unresolved(serviceCalls[i])}

\* Call i settles in this step.
SettlesNow(i) ==
    /\ i \in 1..Len(serviceCalls)
    /\ serviceCalls[i].status = "pending"
    /\ serviceCalls'[i].status \in {"fulfilled", "rejected"}

\* What the panel shows for a settled call.
ShownFor(call) == IF call.status = "fulfilled" THEN call.value ELSE TutorError

\* C22, as stated: over ask clicks, input changes, view switches and
\* resolutions of requests, at most one askAITeacher request is unresolved
\* at any time.
C22_OneUnresolved ==
    Cardinality({i \in 1..Len(serviceCalls) : Unresolved(serviceCalls[i])}) <= 1

\* C22, amended: each instance of the panel has at most one unresolved
\* request; the answer displayed changes only when a request of the
\* displayed instance settles, to what that request settled with, or when
\* the panel is mounted or unmounted, to nothing; a request of an instance
\* that is gone changes nothing of the displayed panel.
C22_OneUnresolvedPerPanel ==
    [][ /\ \A p \in 1..MaxMounts : Cardinality(UnresolvedOf(p))' <= 1
        /\ \A i \in 1..MaxRequests :
              SettlesNow(i) =>
                IF Mounted /\ serviceCalls[i].owner = panel
                THEN answer' = ShownFor(serviceCalls'[i])
                ELSE UNCHANGED <<answer, tutorLoading, question>>
        /\ (answer' # answer /\ ~\E i \in 1..MaxRequests : SettlesNow(i)) =>
              (answer' = "" /\ Mounted' # Mounted)
      ]_vars

\* The second instance of the panel shows the answer to its own request
\* while the request of the first instance, settled too, said otherwise.
C22_Witness ==
    /\ Mounted /\ panel = 2
    /\ Len(serviceCalls) = 2
    /\ serviceCalls[1].owner = 1 /\ serviceCalls[1].status = "fulfilled"
    /\ serviceCalls[2].owner = 2 /\ serviceCalls[2].status = "fulfilled"
    /\ serviceCalls[1].value # serviceCalls[2].value
    /\ answer = serviceCalls[2].value

\* The latest call made by instance p of the panel has this status.
LatestOf(p, statuses) ==
    \E i \in 1..Len(serviceCalls) :
        /\ serviceCalls[i].owner = p
        /\ serviceCalls[i].status \in statuses
        /\ \A j \in (i + 1)..Len(serviceCalls) : serviceCalls[j].owner # p

\* Instance p of the panel is displayed, not loading, and shows the error
\* message.
ShowsFallback(p) == Mounted /\ panel = p /\ ~tutorLoading /\ answer = TutorError

\* C23: whenever the request of the displayed panel fails or never
\* completes, the panel eventually is not loading and shows the error
\* message, for as long as it is displayed.
C23_FallbackEventually ==
    \A p \in 1..MaxMounts :
        (Mounted /\ panel = p /\ LatestOf(p, {"rejected", "hung"}))
        ~> (ShowsFallback(p) \/ ~(Mounted /\ panel = p))

\* The half of C23 that holds: a request that fails leaves the panel not
\* loading and showing the error message.
C23_FallbackOnFailure ==
    \A p \in 1..MaxMounts :
        (Mounted /\ panel = p /\ LatestOf(p, {"rejected"})) => ShowsFallback(p)

\* C24: in the displayed panel loading is true exactly while a request of
\* that panel is unresolved, and is false as soon as the request settles,
\* fulfilled or rejected; when it is fulfilled answer is the text the
\* service returned; a click with a question of whitespace only sends no
\* request and changes neither loading nor answer.
C24_LoadingWhileUnresolved ==
    [][ /\ Mounted' => (tutorLoading' <=> UnresolvedOf(panel)' # {})
        /\ \A i \in 1..MaxRequests :
              (SettlesNow(i) /\ Mounted /\ serviceCalls[i].owner = panel) =>
                /\ ~tutorLoading'
                /\ serviceCalls'[i].status = "fulfilled" =>
                      /\ answer' = serviceCalls'[i].value
                      /\ \E response \in AskResponses :
                            response.ok /\ answer' = response.text
        /\ (clicks' # clicks /\ \A k \in 1..Len(question) : question[k] = " ") =>
              UNCHANGED <<serviceCalls, tutorLoading, answer>>
        /\ (clicks' # clicks /\ \E k \in 1..Len(question) : question[k] # " ") =>
              (tutorLoading' /\ Len(serviceCalls') = Len(serviceCalls) + 1)
      ]_vars

\* A click with a question of whitespace only has done nothing, and a later
\* request has been answered and the answer is shown.
C24_Witness ==
    /\ Mounted
    /\ clicks = 2 /\ Len(serviceCalls) = 1
    /\ serviceCalls[1].owner = panel /\ serviceCalls[1].status = "fulfilled"
    /\ answer = serviceCalls[1].value
    /\ ~tutorLoading

----------------------------------------------------------------------------
\* The quizzes of INITIAL_QUIZ_DATA.
StaticQuizzes == {INITIAL_QUIZ_DATA[k] : k \in 1..Len(INITIAL_QUIZ_DATA)}

\* The selection is reset.
SelectionReset == selectedOption' = "null" /\ ~showResult'

\* A step that can load a quiz: loadStaticQuiz behind the button in static
\* mode, loadAIQuiz without an API key, or loadAIQuiz after its await.
LoadStep ==
    \/ ~quizLoading /\ mode = "static"
    \/ ~quizLoading /\ apiKey = ""
    \/ quizLoading /\ ~quizLoading'

\* C28: showResult implies that selectedOption is not null; while the
\* result is shown selectedOption and showResult change only when a quiz is
\* loaded; and every load of a quiz, static or generated, resets
\* selectedOption to null and showResult to false.
C28_ResultNeedsSelection ==
    [][ /\ showResult' => selectedOption' # "null"
        /\ showResult =>
              \/ UNCHANGED <<selectedOption, showResult, quiz>>
              \/ LoadStep /\ SelectionReset /\ quiz' \in StaticQuizzes \cup {AIQuiz}
        /\ quiz' # quiz => SelectionReset
        /\ (quizLoading /\ ~quizLoading') => SelectionReset
      ]_vars

\* An option of a generated quiz was chosen after an option of a static one.
C28_Witness ==
    /\ quiz = AIQuiz
    /\ showResult
    /\ selectedOption = AIQuiz.options[3]
    /\ \E i \in 1..Len(serviceCalls) : serviceCalls[i].status = "fulfilled"

\* C29: every run of loadAIQuiz that ends leaves loading false and a quiz
\* set. Without an API key it sets the mode to static and loads a quiz of
\* INITIAL_QUIZ_DATA at once, sending no request; when generateQuiz returns
\* null or rejects, a quiz of INITIAL_QUIZ_DATA is loaded; when it returns a
\* quiz, that quiz is set. Every quiz of INITIAL_QUIZ_DATA has its answer
\* among its options.
C29_LoadAIQuizEnds ==
    [][ /\ (loadAICalls' # loadAICalls /\ apiKey = "") =>
              /\ mode' = "static"
              /\ quiz' \in StaticQuizzes
              /\ SelectionReset
              /\ ~quizLoading'
              /\ UNCHANGED serviceVars
        /\ (loadAICalls' # loadAICalls /\ apiKey # "") =>
              /\ quizLoading'
              /\ Len(serviceCalls') = Len(serviceCalls) + 1
              /\ serviceCalls'[Len(serviceCalls')].sent
        /\ \A i \in 1..MaxRequests :
              (SettlesNow(i) /\ serviceCalls[i].kind = "quiz") =>
                /\ ~quizLoading'
                /\ SelectionReset
                /\ IF serviceCalls'[i].status = "fulfilled" /\ serviceCalls'[i].value # "null"
                   THEN quiz' = AIQuiz
                   ELSE quiz' \in StaticQuizzes
        /\ quizLoading' => \E i \in 1..Len(serviceCalls') : Unresolved(serviceCalls'[i])
        /\ \A q \in StaticQuizzes : \E n \in 1..Len(q.options) : q.options[n] = q.answer
      ]_vars

\* generateQuiz returned null and a quiz of INITIAL_QUIZ_DATA replaced the
\* generated quiz that was shown with its result.
C29_Witness ==
    /\ Len(serviceCalls) = 2
    /\ serviceCalls[1].status = "fulfilled" /\ serviceCalls[1].value = "ai quiz"
    /\ serviceCalls[2].status = "fulfilled" /\ serviceCalls[2].value = "null"
    /\ quiz \in StaticQuizzes
    /\ ~quizLoading /\ ~showResult /\ selectedOption = "null"

====
